---- MODULE Spec2Model ----
(***************************************************************************)
(* The jsonb on-disk format parser of jsonb_parser/jsonb.py.               *)
(*                                                                         *)
(* The buffer is a sequence of bytes.  A 32-bit word is kept as the pair   *)
(* of its top nibble (bits 28..31, `hi') and its low 28 bits (`lo'): every *)
(* mask of jsonb.py splits a word exactly there, and no 32-bit quantity    *)
(* is ever formed, so no arithmetic leaves the 28-bit range.               *)
(*                                                                         *)
(* The recursion of _parse_array/_parse_object/_parse_container is kept as *)
(* an explicit stack of frames, one frame per container being decoded.     *)
(***************************************************************************)
EXTENDS Integers, Sequences, FiniteSets, TLC

VARIABLES data, pc, stack, result, err, doc, offs, call, first,
          _object, _parsed

vars == <<data, pc, stack, result, err, doc, offs, call, first,
          _object, _parsed>>

Min(a, b) == IF a < b THEN a ELSE b

Max(a, b) == IF a < b THEN b ELSE a

(***************************************************************************)
(* Bit-level access to JsonEntry and JsonContainer words.                  *)
(***************************************************************************)

\* type codes: the value of (je & JENTRY_TYPEMASK) >> 28
JENTRY_ISSTRING == 0

JENTRY_ISNUMERIC == 1

JENTRY_ISBOOL_FALSE == 2

JENTRY_ISBOOL_TRUE == 3

JENTRY_ISNULL == 4

JENTRY_ISCONTAINER == 5

\* je & JENTRY_OFFLENMASK
jbe_offlenfld(je) == je.lo

\* (je & JENTRY_HAS_OFF) != 0
jbe_has_off(je) == (je.hi \div 8) = 1

\* a type mask one bit short
jbe_type_two_bits(je) == je.hi % 4

\* je & JENTRY_TYPEMASK, as a type code
jbe_type(je) == je.hi % 8

\* val & JB_CMASK
jc_size(val) == val.lo

\* val & JB_FSCALAR != 0
jc_is_scalar(val) == (val.hi % 2) = 1

\* the scalar flag tested for the object flag
jc_is_object_scalar_bit(val) == (val.hi % 2) = 1

\* val & JB_FOBJECT != 0
jc_is_object(val) == ((val.hi \div 2) % 2) = 1

\* the array flag taken only when the object flag is clear
jc_is_array_exclusive(val) == val.hi \in {4, 5, 12, 13}

\* val & JB_FARRAY != 0
jc_is_array(val) == ((val.hi \div 4) % 2) = 1

\* an aligned position padded by a whole word
int32_pad_full(pos) == <<4, 3, 2, 1>>[(pos % 4) + 1]

\* int32_pad[pos & 3]
int32_pad(pos) == <<0, 3, 2, 1>>[(pos % 4) + 1]

(***************************************************************************)
(* Reading the buffer.  Python positions are 0-based.                      *)
(***************************************************************************)

\* struct.Struct("<I").unpack_from(buf, pos): needs 4 bytes from pos on
CanUnpack(buf, pos) == pos >= 0 /\ pos + 4 <= Len(buf)

_unpack_uint4(buf, pos) ==
    [hi |-> buf[pos + 4] \div 16,
     lo |-> buf[pos + 1] + 256 * buf[pos + 2] + 65536 * buf[pos + 3]
            + 16777216 * (buf[pos + 4] % 16)]

\* a slice index as Python normalises it
SliceIndex(buf, i) == IF i < 0 THEN Max(i + Len(buf), 0) ELSE Min(i, Len(buf))

\* buf[a : b]; never fails, silently clipped to the buffer
PySlice(buf, a, b) ==
    LET lo == SliceIndex(buf, a)
        hi == SliceIndex(buf, b)
    IN  IF hi <= lo THEN <<>> ELSE SubSeq(buf, lo + 1, hi)

(***************************************************************************)
(* codecs.lookup("utf8").decode: strict UTF-8 to a sequence of code points *)
(***************************************************************************)

IsCont(b) == b >= 128 /\ b < 192

RECURSIVE _decode_utf8(_)
_decode_utf8(b) ==
    IF b = <<>> THEN [ok |-> TRUE, s |-> <<>>]
    ELSE
    LET c == b[1]
        n == IF c < 128 THEN 1
             ELSE IF c >= 194 /\ c < 224 THEN 2
             ELSE IF c >= 224 /\ c < 240 THEN 3
             ELSE IF c >= 240 /\ c < 245 THEN 4
             ELSE 0
        wf == /\ n > 0
              /\ Len(b) >= n
              /\ \A k \in 2..n : IsCont(b[k])
        cp == IF n = 1 THEN c
              ELSE IF n = 2 THEN (c - 192) * 64 + (b[2] - 128)
              ELSE IF n = 3 THEN (c - 224) * 4096 + (b[2] - 128) * 64 + (b[3] - 128)
              ELSE (c - 240) * 262144 + (b[2] - 128) * 4096
                   + (b[3] - 128) * 64 + (b[4] - 128)
        valid == /\ wf
                 /\ (n = 3 => cp >= 2048 /\ ~(cp >= 55296 /\ cp < 57344))
                 /\ (n = 4 => cp >= 65536 /\ cp < 1114112)
    IN  IF ~valid THEN [ok |-> FALSE, s |-> <<>>]
        ELSE LET r == _decode_utf8(SubSeq(b, n + 1, Len(b)))
             IN  IF r.ok THEN [ok |-> TRUE, s |-> <<cp>> \o r.s] ELSE r

(***************************************************************************)
(* Decoded values: a tag and a payload.  A string is its sequence of code  *)
(* points, a list a sequence of values, a dict a function from keys to     *)
(* values.                                                                 *)
(***************************************************************************)

JNull == [t |-> "null", v |-> <<>>]

JBool(b) == [t |-> "bool", v |-> b]

JString(s) == [t |-> "str", v |-> s]

JNumeric(x) == [t |-> "num", v |-> x]

JArray(a) == [t |-> "arr", v |-> a]

JObject(m) == [t |-> "obj", v |-> m]

\* what a call comes to: a value returned, an exception raised, or a
\* container whose entries are still to be decoded (a frame to push)
Returned(val) == [k |-> "value", val |-> val]

Raised(exc) == [k |-> "raise", exc |-> exc]

Entered(frame) == [k |-> "call", frame |-> frame]

_get32(pos) == _unpack_uint4(data, pos)

\* self.data[pos : pos + length] decoded as UTF-8
_parse_string(pos, length) ==
    LET r == _decode_utf8(PySlice(data, pos, pos + length))
    IN  IF r.ok THEN Returned(JString(r.s)) ELSE Raised("UnicodeDecodeError")

\* a little-endian 16-bit field of the packed numeric
U16(b, k) == b[k] + 256 * b[k + 1]

NUMERIC_POS == 0

NUMERIC_NEG == 16384

NUMERIC_NAN == 49152

\* the packed numeric: ndigits, weight, sign, dscale, then ndigits digit
\* words; the value is kept as its sign, weight and base-10000 digits
parse_numeric(b) ==
    IF Len(b) < 8 THEN Raised("BadNumeric")
    ELSE
    LET ndigits == U16(b, 1)
        weight == U16(b, 3)
        sign == U16(b, 5)
    IN  IF sign \notin {NUMERIC_POS, NUMERIC_NEG, NUMERIC_NAN}
          THEN Raised("BadNumeric")
        ELSE IF sign = NUMERIC_NAN THEN Returned(JNumeric(<<"nan">>))
        ELSE IF ndigits >= 32768 \/ Len(b) < 8 + 2 * ndigits
          THEN Raised("BadNumeric")
        ELSE Returned(JNumeric([sign |-> sign, weight |-> weight,
               digits |-> [d \in 1..ndigits |-> U16(b, 7 + 2 * d)]]))

\* the format includes the varlena header and alignment padding
_parse_numeric(pos, length) ==
    LET off == 4 + int32_pad(pos)
    IN  parse_numeric(PySlice(data, pos + off, pos + length))

\* where the values are, past the jentries (pos is past the container head)
array_vstart(pos, size) == pos + 4 * size

\* the values taken to start past `size' jentries, as in an array
object_vstart_as_array(pos, size) == pos + 4 * size

object_vstart(pos, size) == pos + 4 * size * 2

\* _parse_array up to its loop
_parse_array_enter(jc, pos) ==
    LET size == jc_size(jc)
    IN  IF size = 0 THEN Returned(JArray(<<>>))
        ELSE Entered([kind |-> "array", jc |-> jc, hdr |-> pos, size |-> size,
                      n |-> size, pos |-> pos + 4,
                      vstart |-> array_vstart(pos + 4, size),
                      voff |-> 0, i |-> 0, flen |-> 0, res |-> <<>>])

\* _parse_object up to its loop
_parse_object_enter(jc, pos) ==
    LET size == jc_size(jc)
    IN  IF size = 0 THEN Returned(JObject(<<>>))
        ELSE Entered([kind |-> "object", jc |-> jc, hdr |-> pos, size |-> size,
                      n |-> size * 2, pos |-> pos + 4,
                      vstart |-> object_vstart(pos + 4, size),
                      voff |-> 0, i |-> 0, flen |-> 0, res |-> <<>>])

\* a nested header past the end of the buffer taken for an empty list
_parse_container_lenient(je, pos) ==
    LET p == pos + int32_pad(pos)
    IN  IF ~CanUnpack(data, p) THEN Returned(JArray(<<>>))
        ELSE LET jc == _get32(p)
             IN  IF jc_is_array(jc) THEN _parse_array_enter(jc, p)
                 ELSE IF jc_is_object(jc) THEN _parse_object_enter(jc, p)
                 ELSE Raised("bad container header")

\* the header of a nested container is read past the padding
_parse_container(je, pos) ==
    LET p == pos + int32_pad(pos)
    IN  IF ~CanUnpack(data, p) THEN Raised("struct.error")
        ELSE LET jc == _get32(p)
             IN  IF jc_is_array(jc) THEN _parse_array_enter(jc, p)
                 ELSE IF jc_is_object(jc) THEN _parse_object_enter(jc, p)
                 ELSE Raised("bad container header")

_parse_entry(je, pos, length) ==
    LET typ == jbe_type(je)
    IN  IF typ = JENTRY_ISSTRING THEN _parse_string(pos, length)
        ELSE IF typ = JENTRY_ISNUMERIC THEN _parse_numeric(pos, length)
        ELSE IF typ = JENTRY_ISCONTAINER THEN _parse_container(je, pos)
        ELSE IF typ = JENTRY_ISNULL THEN Returned(JNull)
        ELSE IF typ = JENTRY_ISBOOL_TRUE THEN Returned(JBool(TRUE))
        ELSE IF typ = JENTRY_ISBOOL_FALSE THEN Returned(JBool(FALSE))
        ELSE Raised("bad entry header")

\* the field always taken for a length
entry_flen_raw(je, voff) == jbe_offlenfld(je)

\* the subtraction the other way round
entry_flen_swapped(je, voff) ==
    IF jbe_has_off(je) THEN voff - jbe_offlenfld(je) ELSE jbe_offlenfld(je)

\* the value length: if has_off, the field is the offset from vstart
entry_flen(je, voff) ==
    IF jbe_has_off(je) THEN jbe_offlenfld(je) - voff ELSE jbe_offlenfld(je)

\* lists and dicts are unhashable
Hashable(val) == val.t \notin {"arr", "obj"}

\* the first pair of a key kept instead of the last
dict_zip_first(res, size) ==
    LET keys == {res[j] : j \in 1..size}
        fst(key) == CHOOSE j \in 1..size :
                       /\ res[j] = key
                       /\ \A j2 \in 1..size : res[j2] = key => j <= j2
    IN  IF \A j \in 1..size : Hashable(res[j])
          THEN Returned(JObject([key \in keys |-> res[size + fst(key)]]))
          ELSE Raised("TypeError")

\* a key that comes twice left out of the map
dict_zip_drop_dups(res, size) ==
    LET once == {j \in 1..size : \A j2 \in 1..size : res[j2] = res[j] => j2 = j}
        at(key) == CHOOSE j \in once : res[j] = key
    IN  IF \A j \in 1..size : Hashable(res[j])
          THEN Returned(JObject([key \in {res[j] : j \in once} |->
                                    res[size + at(key)]]))
          ELSE Raised("TypeError")

\* dict(zip(res[:size], res[size:])): a later pair replaces an earlier one
dict_zip(res, size) ==
    LET keys == {res[j] : j \in 1..size}
        last(key) == CHOOSE j \in 1..size :
                        /\ res[j] = key
                        /\ \A j2 \in 1..size : res[j2] = key => j2 <= j
    IN  IF \A j \in 1..size : Hashable(res[j])
          THEN Returned(JObject([key \in keys |-> res[size + last(key)]]))
          ELSE Raised("TypeError")

\* what the finished loop of a frame returns
frame_return(f) ==
    IF f.kind = "array" THEN Returned(JArray(f.res)) ELSE dict_zip(f.res, f.size)

\* the scalar bit ignored: the wrapping list is returned
root_array_result_wrapped(jc, rv) == Returned(rv)

\* rv[0] if jc_is_scalar(jc) else rv
root_array_result(jc, rv) ==
    IF jc_is_scalar(jc)
      THEN IF Len(rv.v) = 0 THEN Raised("IndexError") ELSE Returned(rv.v[1])
      ELSE Returned(rv)

(***************************************************************************)
(* The decoder as a machine.  pc is "start" before _parse_root runs, "run" *)
(* while containers are being decoded, "done" when parse_jsonb returned    *)
(* `result', "error" when an exception (`err') left parse_jsonb.  _object  *)
(* and _parsed are the fields of the JsonbParser.                          *)
(***************************************************************************)

NoValue == [t |-> "none", v |-> <<>>]

Top == stack[Len(stack)]

\* the object property: the value parsed, if a parse() went through
object == IF ~_parsed THEN Raised("ValueError") ELSE Returned(_object)

\* a failed parse() taken for a finished one
Raise_marks_parsed(exc) ==
    /\ pc' = "error"
    /\ err' = exc
    /\ stack' = <<>>
    /\ _parsed' = TRUE
    /\ UNCHANGED <<result, _object>>

\* an exception propagates out of parse(), and out of parse_jsonb: every
\* frame is unwound and no assignment of parse() is reached
Raise(exc) ==
    /\ pc' = "error"
    /\ err' = exc
    /\ stack' = <<>>
    /\ UNCHANGED <<result, _object, _parsed>>

\* parse() stores the root value and parse_jsonb returns v.object
Finish(val) ==
    /\ pc' = "done"
    /\ _object' = val
    /\ _parsed' = TRUE
    /\ result' = val
    /\ stack' = <<>>
    /\ UNCHANGED err

\* a container with entries to decode: its frame goes on the stack
Enter(frames) ==
    /\ pc' = "run"
    /\ stack' = frames
    /\ UNCHANGED <<result, err, _object, _parsed>>

_parse_root ==
    /\ pc = "start"
    /\ IF ~CanUnpack(data, 0) THEN Raise("struct.error")
       ELSE LET jc == _get32(0)
                out == IF jc_is_array(jc) THEN _parse_array_enter(jc, 0)
                       ELSE IF jc_is_object(jc) THEN _parse_object_enter(jc, 0)
                       ELSE Raised("bad root header")
                fin == IF out.k = "value" /\ jc_is_array(jc)
                         THEN root_array_result(jc, out.val) ELSE out
            IN  IF fin.k = "raise" THEN Raise(fin.exc)
                ELSE IF fin.k = "value" THEN Finish(fin.val)
                ELSE Enter(<<fin.frame>>)
    /\ UNCHANGED <<data, doc, offs, call, first>>

\* the loop index left where it was
Advance_stuck(f, val, flen) ==
    [f EXCEPT !.res = Append(f.res, val), !.voff = f.voff + flen]

\* the running offset set to the last length instead of the sum
Advance_no_sum(f, val, flen) ==
    [f EXCEPT !.res = Append(f.res, val), !.voff = flen, !.i = f.i + 1]

\* the frame after the value of its current entry is appended
Advance(f, val, flen) ==
    [f EXCEPT !.res = Append(f.res, val), !.voff = f.voff + flen, !.i = f.i + 1]

\* one turn of the loop over the jentries of the top frame
LoopTurn ==
    LET f == Top
        d == Len(stack)
    IN  IF ~CanUnpack(data, f.pos + 4 * f.i) THEN Raise("struct.error")
        ELSE LET je == _get32(f.pos + 4 * f.i)
                 flen == entry_flen(je, f.voff)
                 out == _parse_entry(je, f.vstart + f.voff, flen)
             IN  IF out.k = "raise" THEN Raise(out.exc)
                 ELSE IF out.k = "value"
                   THEN Enter([stack EXCEPT ![d] = Advance(f, out.val, flen)])
                 ELSE Enter(Append([stack EXCEPT ![d].flen = flen], out.frame))

\* the loop of the top frame is over: its value goes to the caller
LoopEnd ==
    LET f == Top
        d == Len(stack)
        out == frame_return(f)
        fin == IF out.k = "value" /\ d = 1 /\ f.kind = "array"
                 THEN root_array_result(f.jc, out.val) ELSE out
    IN  IF fin.k = "raise" THEN Raise(fin.exc)
        ELSE IF d = 1 THEN Finish(fin.val)
        ELSE Enter([SubSeq(stack, 1, d - 1) EXCEPT
                      ![d - 1] = Advance(stack[d - 1], fin.val, stack[d - 1].flen)])

_parse_array ==
    /\ pc = "run"
    /\ Top.kind = "array"
    /\ IF Top.i < Top.n THEN LoopTurn ELSE LoopEnd
    /\ UNCHANGED <<data, doc, offs, call, first>>

_parse_object ==
    /\ pc = "run"
    /\ Top.kind = "object"
    /\ IF Top.i < Top.n THEN LoopTurn ELSE LoopEnd
    /\ UNCHANGED <<data, doc, offs, call, first>>

(***************************************************************************)
(* The buffers of the tests: `select %s::jsonb::bytea' of a JSON document, *)
(* that is the server's encoding (the layout the docstrings of             *)
(* _parse_container and _parse_object describe).  `os' is the set of       *)
(* jentry indexes that store an end offset instead of a length: the server *)
(* takes the indexes divisible by its stride.                              *)
(***************************************************************************)

\* "the server stores one offset each stride of 32 items"
JB_OFFSET_STRIDE == 32

\* the four little-endian bytes of the word with top nibble hi, low bits lo
WordBytes(hi, lo) ==
    <<lo % 256, (lo \div 256) % 256, (lo \div 65536) % 256,
      (lo \div 16777216) + 16 * hi>>

\* the UTF-8 bytes of one code point
Utf8Char(cp) ==
    IF cp < 128 THEN <<cp>>
    ELSE IF cp < 2048 THEN <<192 + (cp \div 64), 128 + (cp % 64)>>
    ELSE IF cp < 65536
      THEN <<224 + (cp \div 4096), 128 + ((cp \div 64) % 64), 128 + (cp % 64)>>
    ELSE <<240 + (cp \div 262144), 128 + ((cp \div 4096) % 64),
           128 + ((cp \div 64) % 64), 128 + (cp % 64)>>

RECURSIVE Utf8Encode(_)
Utf8Encode(s) ==
    IF s = <<>> THEN <<>> ELSE Utf8Char(Head(s)) \o Utf8Encode(Tail(s))

\* the order of object keys: by length of the encoded key, then bytewise
KeyLess(a, b) ==
    LET x == Utf8Encode(a.v)
        y == Utf8Encode(b.v)
    IN  \/ Len(x) < Len(y)
        \/ /\ Len(x) = Len(y)
           /\ \E k \in 1..Len(x) :
                /\ x[k] < y[k]
                /\ \A j \in 1..(k - 1) : x[j] = y[j]

RECURSIVE SortKeys(_)
SortKeys(S) ==
    IF S = {} THEN <<>>
    ELSE LET m == CHOOSE a \in S : \A b \in S \ {a} : KeyLess(a, b)
         IN  <<m>> \o SortKeys(S \ {m})

Zeros(n) == [j \in 1..n |-> 0]

\* the padding that aligns a buffer of length n to 4 bytes
PadTo4(n) == (4 - (n % 4)) % 4

RECURSIVE Concat(_)
Concat(ss) == IF ss = <<>> THEN <<>> ELSE Head(ss) \o Concat(Tail(ss))

RECURSIVE EncodeValue(_, _, _)
RECURSIVE EncodeChildren(_, _, _)

\* the jentries and the values area of a container whose children are
\* `vals', its header being the word <<hi, Len(vals)...>> at base + padding
EncodeContainer(hdrhi, count, vals, base, os) ==
    LET pad == PadTo4(base)
        n == Len(vals)
        kids == EncodeChildren(vals, base + pad + 4 + 4 * n, os)
        total(i) == LET sum[j \in 0..i] ==
                          IF j = 0 THEN 0 ELSE sum[j - 1] + kids[j].len
                    IN  sum[i]
        meta(i) == IF (i - 1) \in os
                     THEN WordBytes(8 + kids[i].typ, total(i))
                     ELSE WordBytes(kids[i].typ, kids[i].len)
        bytes == Zeros(pad) \o WordBytes(hdrhi, count)
                 \o Concat([i \in 1..n |-> meta(i)])
                 \o Concat([i \in 1..n |-> kids[i].bytes])
    IN  [bytes |-> bytes, typ |-> JENTRY_ISCONTAINER, len |-> Len(bytes)]

\* a value appended to a buffer of length base: its bytes, and the type and
\* length of its jentry
EncodeValue(val, base, os) ==
    IF val.t = "null" THEN [bytes |-> <<>>, typ |-> JENTRY_ISNULL, len |-> 0]
    ELSE IF val.t = "bool"
      THEN [bytes |-> <<>>, len |-> 0,
            typ |-> IF val.v THEN JENTRY_ISBOOL_TRUE ELSE JENTRY_ISBOOL_FALSE]
    ELSE IF val.t = "str"
      THEN LET b == Utf8Encode(val.v)
           IN  [bytes |-> b, typ |-> JENTRY_ISSTRING, len |-> Len(b)]
    ELSE IF val.t = "arr"
      THEN EncodeContainer(4, Len(val.v), val.v, base, os)
    ELSE LET keys == SortKeys(DOMAIN val.v)
             n == Len(keys)
         IN  EncodeContainer(2, n,
                 keys \o [i \in 1..n |-> val.v[keys[i]]], base, os)

EncodeChildren(vals, pos, os) ==
    IF vals = <<>> THEN <<>>
    ELSE LET e == EncodeValue(Head(vals), pos, os)
         IN  <<e>> \o EncodeChildren(Tail(vals), pos + e.len, os)

\* the root is always a container: a scalar is a 1-element array with the
\* scalar bit set
Encode(val, os) ==
    IF val.t \in {"arr", "obj"} THEN EncodeValue(val, 0, os).bytes
    ELSE EncodeContainer(5, 1, <<val>>, 0, os).bytes

(***************************************************************************)
(* The documents and buffers of the model.                                 *)
(***************************************************************************)

\* documents have at most MaxNodes values, containers included
MaxNodes == 3

\* jentry indexes below MaxOff may store an offset in a test buffer
MaxOff == 4

\* "", "a", and the EUR of the tests
Strings == {<<>>, <<97>>, <<8364>>}

\* the keys: the strings and "b", a second key of one byte
Keys == {JString(s) : s \in Strings \cup {<<98>>}}

Scalars == {JNull, JBool(TRUE), JBool(FALSE)} \cup {JString(s) : s \in Strings}

RECURSIVE DocsOfSize(_, _, _)
RECURSIVE SeqsOfSize(_, _, _)

\* the sequences of documents with m values in all
SeqsOfSize(S, K, m) ==
    IF m = 0 THEN {<<>>}
    ELSE UNION {{<<d>> \o s : d \in DocsOfSize(S, K, k),
                              s \in SeqsOfSize(S, K, m - k)} : k \in 1..m}

\* the objects with the values of s, in the order of their keys
ObjectsOf(K, s) ==
    {JObject(LET ks == SortKeys(Q) IN
             [key \in Q |-> s[CHOOSE i \in 1..Len(s) : ks[i] = key]]) :
       Q \in {Q \in SUBSET K : Cardinality(Q) = Len(s)}}

\* the documents of n values with scalars in S and keys in K
DocsOfSize(S, K, n) ==
    IF n = 1 THEN S \cup {JArray(<<>>), JObject(<<>>)}
    ELSE {JArray(s) : s \in SeqsOfSize(S, K, n - 1)}
         \cup UNION {ObjectsOf(K, s) : s \in SeqsOfSize(S, K, n - 1)}

\* the documents that go through the server
Docs == UNION {DocsOfSize(Scalars, Keys, n) : n \in 1..MaxNodes}

\* the documents whose buffers are damaged: null, true, "a", EUR and the
\* keys "" and "a"
Seeds ==
    UNION {DocsOfSize({JNull, JBool(TRUE), JString(<<97>>), JString(<<8364>>)},
                      {JString(<<>>), JString(<<97>>)}, n) : n \in 1..MaxNodes}

ServerOffs == {i \in 0..(2 * MaxNodes) : i % JB_OFFSET_STRIDE = 0}

NoDoc == NoValue

\* the words written over a word of a well-formed buffer: headers and
\* jentries of every type, with and without the offset bit, and text
Words ==
    {WordBytes(w[1], w[2]) : w \in
       {<<0, 0>>, <<0, 1>>, <<8, 0>>, <<8, 1>>, <<1, 0>>, <<2, 1>>, <<2, 2>>,
        <<3, 0>>, <<4, 0>>, <<4, 1>>, <<4, 2>>, <<5, 0>>, <<5, 1>>, <<5, 2>>,
        <<6, 1>>, <<7, 0>>, <<8, 128>>, <<13, 4>>, <<14, 1>>}}

\* buffer b with its w-th word replaced
ReplaceWord(b, w, x) ==
    [j \in 1..Len(b) |-> IF j > 4 * w /\ j <= 4 * w + 4 THEN x[j - 4 * w] ELSE b[j]]

\* a well-formed buffer, its proper prefixes, and its copies with one word
\* overwritten
Damaged(b) ==
    {b} \cup {SubSeq(b, 1, k) : k \in 0..(Len(b) - 1)}
        \cup {ReplaceWord(b, w, x) : w \in 0..((Len(b) \div 4) - 1), x \in Words}

\* parse_jsonb is given any of these buffers
Init ==
    /\ \E d \in Seeds : data \in Damaged(Encode(d, ServerOffs))
    /\ pc = "start"
    /\ stack = <<>>
    /\ result = NoValue
    /\ err = ""
    /\ doc = NoDoc
    /\ offs = {}
    /\ call = 1
    /\ first = NoValue
    /\ _object = JNull
    /\ _parsed = FALSE

Next == _parse_root \/ _parse_array \/ _parse_object

Spec == Init /\ [][Next]_vars

\* the tests: a document goes through the server and parse_jsonb
InitRT ==
    /\ doc \in Docs
    /\ offs = ServerOffs
    /\ data = Encode(doc, offs)
    /\ pc = "start"
    /\ stack = <<>>
    /\ result = NoValue
    /\ err = ""
    /\ call = 1
    /\ first = NoValue
    /\ _object = JNull
    /\ _parsed = FALSE

\* the same document once more, its offsets stored at any set of indexes
roundtrip ==
    /\ pc = "done"
    /\ call = 1
    /\ call' = 2
    /\ first' = result
    /\ \E os \in SUBSET (0..(MaxOff - 1)) :
         /\ offs' = os
         /\ data' = Encode(doc, os)
    /\ pc' = "start"
    /\ result' = NoValue
    /\ _object' = JNull
    /\ _parsed' = FALSE
    /\ UNCHANGED <<stack, err, doc>>

NextRT == _parse_root \/ _parse_array \/ _parse_object \/ roundtrip

SpecRT == InitRT /\ [][NextRT]_vars

\* the containers of a chain of nested containers: at most MaxNest
MaxNest == 6

RECURSIVE NestDoc(_)
\* null inside a chain of containers of the given kinds, the outermost
\* first: the one element of an array, the value of the key "" of an object
NestDoc(kinds) ==
    IF kinds = <<>> THEN JNull
    ELSE IF Head(kinds) = "array" THEN JArray(<<NestDoc(Tail(kinds))>>)
    ELSE JObject([key \in {JString(<<>>)} |-> NestDoc(Tail(kinds))])

\* parse_jsonb is given the buffer of a chain of 1 to MaxNest containers
InitDeep ==
    /\ \E n \in 1..MaxNest : \E kinds \in [1..n -> {"array", "object"}] :
          doc = NestDoc(kinds)
    /\ offs = ServerOffs
    /\ data = Encode(doc, offs)
    /\ pc = "start"
    /\ stack = <<>>
    /\ result = NoValue
    /\ err = ""
    /\ call = 1
    /\ first = NoValue
    /\ _object = JNull
    /\ _parsed = FALSE

SpecDeep == InitDeep /\ [][Next]_vars

\* the buffer without its last byte
DropLast(b) == SubSeq(b, 1, Len(b) - 1)

\* parse() is called once more on the same JsonbParser; its buffer, owned
\* by the caller, may have been cut by one byte in between
parse ==
    /\ pc \in {"done", "error"}
    /\ call = 1
    /\ call' = 2
    /\ first' = result
    /\ data' \in {data} \cup (IF data = <<>> THEN {} ELSE {DropLast(data)})
    /\ pc' = "start"
    /\ result' = NoValue
    /\ err' = ""
    /\ UNCHANGED <<stack, doc, offs, _object, _parsed>>

\* what a call of parse_jsonb came to: its value or its exception
Outcome == IF pc = "done" THEN Returned(result) ELSE Raised(err)

\* the buffer with the scalar bit of its root header the other way
FlipScalar(b) == [b EXCEPT ![4] = IF (b[4] \div 16) % 2 = 1 THEN b[4] - 16
                                  ELSE b[4] + 16]

\* parse_jsonb is given the same buffer once more, the scalar bit of its
\* root header flipped
flip_scalar ==
    /\ pc \in {"done", "error"}
    /\ call = 1
    /\ Len(data) >= 4
    /\ call' = 2
    /\ first' = Outcome
    /\ data' = FlipScalar(data)
    /\ pc' = "start"
    /\ result' = NoValue
    /\ err' = ""
    /\ _object' = JNull
    /\ _parsed' = FALSE
    /\ UNCHANGED <<stack, doc, offs>>

NextFlags == _parse_root \/ _parse_array \/ _parse_object \/ flip_scalar

\* buffers decoded with the scalar bit of the root either way
SpecFlags == Init /\ [][NextFlags]_vars

NextParser == _parse_root \/ _parse_array \/ _parse_object \/ parse

\* a JsonbParser whose parse() is called up to two times
SpecParser == Init /\ [][NextParser]_vars

(***************************************************************************)
(* Properties.  They read the words of the buffer by their bits, not       *)
(* through the accessors of the decoder.                                   *)
(***************************************************************************)

\* the loop of the top frame is about to read a jentry
Turning == pc = "run" /\ Top.i < Top.n

CurEntryPos == Top.pos + 4 * Top.i

CurReadable == CurEntryPos + 4 <= Len(data)

CurJe == _unpack_uint4(data, CurEntryPos)

CurType == CurJe.hi % 8

\* the computed length and the absolute position of the current child
CurLen == IF CurJe.hi >= 8 THEN CurJe.lo - Top.voff ELSE CurJe.lo

CurPos == Top.vstart + Top.voff

\* the smallest multiple of 4 that is >= the position of the current child
NestedHdrPos == ((CurPos + 3) \div 4) * 4

\* the loop is about to follow a container jentry to a readable header
Descending ==
    /\ Turning
    /\ CurReadable
    /\ CurType = 5
    /\ NestedHdrPos + 4 <= Len(data)

RootJc == _unpack_uint4(data, 0)

\* top nibbles of a header word with neither the array nor the object bit
NoContainerBits == {0, 1, 8, 9}

\* the value a call has just returned: to the caller of parse_jsonb, or to
\* the loop of the frame below
LastValue == IF pc = "done" THEN result ELSE Top.res[Len(Top.res)]

\* C1: a document encoded by the server (header, jentries, values, sorted
\* keys, padding before nested containers) decodes, without an error, to a
\* value equal to the document, objects being compared as maps.
C1_RoundTrip ==
    call = 1 => /\ pc # "error"
                /\ pc = "done" => result = doc

\* ["a", []] went through: a nested container after one byte of text
C1_Witness ==
    /\ call = 1
    /\ pc = "done"
    /\ doc = JArray(<<JString(<<97>>), JArray(<<>>)>>)
    /\ result = doc

\* C2: a root header with the array and scalar bits and count 1 makes
\* parse_jsonb return the one decoded element itself; a root header with the
\* array bit and no scalar bit makes it return the list of the decoded
\* elements.
C2_ScalarWrapping ==
    [][/\ (pc = "run" /\ pc' = "done" /\ (RootJc.hi \div 4) % 2 = 1) =>
            IF RootJc.hi % 2 = 1
              THEN RootJc.lo = 1 => result' = Top.res[1]
              ELSE result' = JArray(Top.res) /\ Len(Top.res) = RootJc.lo
       /\ (pc = "start" /\ pc' = "done" /\ (RootJc.hi \div 4) % 2 = 1
              /\ RootJc.hi % 2 = 0) => result' = JArray(<<>>)
      ]_vars

\* a scalar root was unwrapped to a bare string
C2_Witness ==
    /\ pc = "done"
    /\ Len(data) >= 4
    /\ RootJc.hi = 5
    /\ RootJc.lo = 1
    /\ result.t = "str"
    /\ result.v # <<>>

\* C3: the buffer of a document whose jentries store lengths or end offsets
\* at any chosen set of indexes decodes, without an error, to the same value
\* as the buffer that stores an offset at index 0 only.
C3_StrideIndependence ==
    call = 2 => /\ pc # "error"
                /\ pc = "done" => result = first

\* an object of two pairs, offsets at the second key and the second value
C3_Witness ==
    /\ call = 2
    /\ pc = "done"
    /\ offs = {1, 3}
    /\ doc.t = "obj"
    /\ Cardinality(DOMAIN doc.v) = 2
    /\ result = first

\* an object frame returns a value
ObjectReturns ==
    /\ pc = "run"
    /\ Top.kind = "object"
    /\ Top.i >= Top.n
    /\ pc' # "error"

\* the layout an object of count N is read with: 2N jentries after the
\* header, the values past them
ObjectLayout(f, N) ==
    /\ N > 0
    /\ f.i = 2 * N
    /\ Len(f.res) = 2 * N
    /\ f.pos = f.hdr + 4
    /\ f.vstart = f.hdr + 4 + 8 * N

\* C4 as stated: an object of count N > 0 is read as 2N jentries, its values
\* area at pos + 4 + 8N, and the returned map takes key[i] to value[i] for
\* every i (N pairs when the keys are distinct).
C4_ObjectPairing ==
    [][ObjectReturns =>
         LET N == _unpack_uint4(data, Top.hdr).lo
             r == Top.res
             m == LastValue'
         IN  /\ ObjectLayout(Top, N)
             /\ m.t = "obj"
             /\ DOMAIN m.v = {r[i] : i \in 1..N}
             /\ \A i \in 1..N : m.v[r[i]] = r[N + i]
             /\ (\A i, j \in 1..N : r[i] = r[j] => i = j)
                    => Cardinality(DOMAIN m.v) = N
      ]_vars

\* C4 amended: the returned map takes key[i] to value[i] for every i whose
\* key is not decoded again at a higher index.
C4_ObjectPairingLastWins ==
    [][ObjectReturns =>
         LET N == _unpack_uint4(data, Top.hdr).lo
             r == Top.res
             m == LastValue'
         IN  /\ ObjectLayout(Top, N)
             /\ m.t = "obj"
             /\ DOMAIN m.v = {r[i] : i \in 1..N}
             /\ \A i \in 1..N :
                    (\A j \in (i + 1)..N : r[j] # r[i]) => m.v[r[i]] = r[N + i]
             /\ (\A i, j \in 1..N : r[i] = r[j] => i = j)
                    => Cardinality(DOMAIN m.v) = N
      ]_vars

\* an object of two pairs was returned
C4_Witness ==
    /\ pc = "done"
    /\ result.t = "obj"
    /\ Cardinality(DOMAIN result.v) = 2

\* the deepest stack a buffer allows: a frame takes a header and a jentry
MaxDepth == (Len(data) \div 8) + 1

\* the jentries of a frame that lie inside the buffer
Readable(f) ==
    IF Len(data) < f.pos THEN 0 ELSE (Len(data) - f.pos) \div 4

\* the turns the loop of a frame can still take, its last one included
Left(f) == Max(Min(f.n, Readable(f)) - f.i, 0) + 1

\* the rank of a state: per stack level the turns left, more than any such
\* number where there is no frame; above all of it before the decoder
\* starts, zero when it has finished
Rank ==
    LET M == Len(data) \div 4
    IN  [k \in 1..MaxDepth |->
           IF pc \in {"done", "error"} THEN 0
           ELSE IF pc = "start" THEN M + 3
           ELSE IF k <= Len(stack) THEN Left(stack[k])
           ELSE M + 2]

\* a comes before b in the lexicographic order
LexLess(a, b) ==
    \E k \in DOMAIN b : a[k] < b[k] /\ \A j \in 1..(k - 1) : a[j] = b[j]

\* C5: on every buffer the decode finishes, with a value or an error: each
\* step of the decoder lowers a rank that cannot fall forever, the decoder
\* has a frame to go on with until the decode is over, and the containers
\* being decoded at one time are no more than the bytes of the buffer.
C5_Terminates ==
    /\ [][LexLess(Rank', Rank) /\ pc \in {"start", "run"}]_vars
    /\ [](pc = "run" => stack # <<>> /\ Top.kind \in {"array", "object"})
    /\ [](Len(stack) <= MaxDepth /\ Len(stack) <= Len(data))

\* a container nested in a container has been decoded to its end
C5_Witness ==
    /\ pc = "run"
    /\ Len(stack) = 2
    /\ Top.i = Top.n

\* C6: a string jentry whose position plus computed length is past the end
\* of the buffer makes the decode fail; no shorter string is returned.
C6_StringBounds ==
    [][(Turning /\ CurReadable /\ CurType = 0 /\ CurPos + CurLen > Len(data))
          => pc' = "error"]_vars

\* C7: a buffer of fewer than 4 bytes is rejected with an error and no
\* value; every read of a word at a position with pos + 4 past the end of
\* the buffer (the root header, a jentry, a nested header) fails the decode.
C7_ShortBuffer ==
    [][(\/ pc = "start" /\ Len(data) < 4
        \/ Turning /\ ~CurReadable
        \/ Turning /\ CurReadable /\ CurType = 5
             /\ NestedHdrPos + 4 > Len(data))
          => pc' = "error" /\ err' = "struct.error" /\ result' = NoValue]_vars

\* a buffer of fewer than 4 bytes was rejected
C7_Witness ==
    /\ pc = "error"
    /\ err = "struct.error"
    /\ Len(data) < 4
    /\ result = NoValue

\* C8: a header word with neither the array nor the object bit fails the
\* decode, at the root and in a nested container, and no value is returned.
C8_BadHeader ==
    [][/\ (pc = "start" /\ Len(data) >= 4 /\ RootJc.hi \in NoContainerBits)
            => pc' = "error" /\ err' = "bad root header" /\ result' = NoValue
       /\ (Descending
             /\ _unpack_uint4(data, NestedHdrPos).hi \in NoContainerBits)
            => pc' = "error" /\ err' = "bad container header"
                 /\ result' = NoValue
      ]_vars

\* a nested header without container bits was rejected
C8_Witness ==
    /\ pc = "error"
    /\ err = "bad container header"

\* C9: a jentry with type bits 6 or 7 fails the decode, whatever its offset
\* bit and length field; it is neither decoded nor skipped.
C9_UnknownType ==
    [][(Turning /\ CurReadable /\ CurType \in {6, 7})
          => pc' = "error" /\ err' = "bad entry header" /\ result' = NoValue
      ]_vars

\* a jentry of unknown type was rejected
C9_Witness ==
    /\ pc = "error"
    /\ err = "bad entry header"

RECURSIVE StringKeys(_)
\* every key of every object in a value is a string
StringKeys(val) ==
    IF val.t = "arr" THEN \A i \in DOMAIN val.v : StringKeys(val.v[i])
    ELSE IF val.t = "obj"
      THEN \A key \in DOMAIN val.v : key.t = "str" /\ StringKeys(val.v[key])
    ELSE TRUE

\* C10: a key jentry of an object that is not a string fails the decode; a
\* returned object never has a key that is not a string.
C10_MalformedObject ==
    /\ [][(Turning /\ Top.kind = "object" /\ Top.i < Top.size /\ CurReadable
             /\ CurType \in {2, 3, 4}) => pc' = "error"]_vars
    /\ [](pc = "done" => StringKeys(result))

RECURSIVE Depth(_)
\* the nesting depth of a document: the containers around its innermost
\* value
Depth(val) ==
    IF val.t = "arr" THEN 1 + Depth(val.v[1])
    ELSE IF val.t = "obj" THEN 1 + Depth(val.v[JString(<<>>)])
    ELSE 0

\* the largest cap the chains of the model go beyond; a smaller cap is
\* exceeded all the more
DepthCap == MaxNest - 1

\* C11: there is a depth cap: the containers being decoded at one time
\* never exceed it, a buffer nested deeper than the cap is not decoded to a
\* value, and a buffer nested less deep than the cap is decoded without an
\* error.  Stated for the cap DepthCap: if more than DepthCap containers
\* are open at once, every cap up to DepthCap is exceeded.
C11_DepthCap ==
    /\ Len(stack) <= DepthCap
    /\ (Depth(doc) > DepthCap) => pc # "done"
    /\ (Depth(doc) < DepthCap) => pc # "error"

\* the header word of the container the current jentry leads to
NestedJc == _unpack_uint4(data, NestedHdrPos)

\* the empty list or map a header word of count 0 stands for
EmptyOf(jc) == IF jc.hi \in {4, 5, 6, 7, 12, 13, 14, 15} THEN JArray(<<>>)
               ELSE JObject(<<>>)

\* the frame below the top one, and the computed length of the jentry it
\* is at
Parent == stack[Len(stack) - 1]

ParentJe == _unpack_uint4(data, Parent.pos + 4 * Parent.i)

ParentLen == IF ParentJe.hi >= 8 THEN ParentJe.lo - Parent.voff ELSE ParentJe.lo

\* C12: the header of a nested container is read at the smallest multiple
\* of 4 that is >= the position of the child (0 to 3 bytes further), the
\* running offset of the parent advances by the computed length of the
\* container jentry, and in a buffer written by the server that lands the
\* next sibling right after the data of the nested container.
C12_Alignment ==
    [][/\ Descending =>
            /\ NestedHdrPos - CurPos \in 0..3
            /\ NestedHdrPos % 4 = 0
            /\ pc' = "run"
            /\ IF NestedJc.lo = 0
                 THEN /\ Len(stack') = Len(stack)
                      /\ LastValue' = EmptyOf(NestedJc)
                      /\ Top'.voff = Top.voff + CurLen
                      /\ Top'.vstart + Top'.voff = NestedHdrPos + 4
                 ELSE /\ Len(stack') = Len(stack) + 1
                      /\ Top'.hdr = NestedHdrPos
                      /\ Top'.jc = NestedJc
                      /\ Top'.pos = NestedHdrPos + 4
       /\ (pc = "run" /\ Len(stack) > 1 /\ Top.i >= Top.n) =>
            /\ pc' = "run"
            /\ Len(stack') = Len(stack) - 1
            /\ Top'.i = Parent.i + 1
            /\ Top'.voff = Parent.voff + ParentLen
            /\ Top'.vstart + Top'.voff = Top.vstart + Top.voff
      ]_vars

\* {"a": [], "b": ...}: the header of [] was read 2 bytes past the keys, at
\* 24, and the value of "b" is about to be decoded at 28
C12_Witness ==
    /\ pc = "run"
    /\ call = 2
    /\ Len(stack) = 1
    /\ Top.kind = "object"
    /\ Top.i = 3
    /\ Top.res[3] = JArray(<<>>)
    /\ Top.vstart = 20
    /\ Top.voff = 8

\* top nibbles of a header word with the array and the scalar bit
ScalarArrayBits == {5, 7, 13, 15}

\* C13: a root header with the array and scalar bits and a count other than
\* 1 is rejected: parse_jsonb returns a value for such a root only when its
\* count is 1.
C13_ScalarRootSize ==
    [](pc = "done" /\ RootJc.hi \in ScalarArrayBits => RootJc.lo = 1)

\* C14: reading `object' raises ValueError unless a parse() of this parser
\* has gone through; a parse() that raises leaves _parsed and _object as
\* they were, so what `object' gives changes only when a parse() completes;
\* and parse_jsonb returns no value for a decode that failed.
C14_NoValueOnFailure ==
    /\ [](object.k = "value" <=>
             (pc = "done" \/ (call = 2 /\ first # NoValue)))
    /\ [](object.k = "raise" => object.exc = "ValueError")
    /\ [][/\ pc' = "error" => _parsed' = _parsed /\ _object' = _object
          /\ object' # object => pc' = "done" /\ object' = Returned(result')
       ]_vars
    /\ [](pc = "error" => result = NoValue)

\* a parse() that went through and one that failed: `object' still gives
\* the list of the first
C14_Witness ==
    /\ pc = "error"
    /\ call = 2
    /\ first.t = "arr"
    /\ first.v # <<>>
    /\ object = Returned(first)

RECURSIVE SumLens(_, _)
\* the sum of the computed lengths of the jentries 0..i-1 of a frame, read
\* from the buffer: a jentry with the offset bit has the length that takes
\* the sum to its field
SumLens(f, i) ==
    IF i = 0 THEN 0
    ELSE LET je == _unpack_uint4(data, f.pos + 4 * (i - 1))
             before == SumLens(f, i - 1)
         IN  before + (IF je.hi >= 8 THEN je.lo - before ELSE je.lo)

\* C15: in every array and object being decoded voff is the sum of the
\* computed lengths of the jentries done so far (0 at the start; in an
\* object one sum over the keys and then the values); the jentry at hand is
\* decoded at vstart + voff with length raw - voff if it has the offset bit
\* and raw otherwise; once a jentry with the offset bit is done, voff is
\* its raw field.
C15_RunningOffset ==
    /\ [](\A k \in 1..Len(stack) :
             /\ stack[k].voff = SumLens(stack[k], stack[k].i)
             /\ stack[k].i <= stack[k].n
             /\ stack[k].n = IF stack[k].kind = "object"
                               THEN 2 * stack[k].size ELSE stack[k].size)
    /\ [][/\ (pc' = "run" /\ Len(stack') = Len(stack) + 1) =>
               Top'.voff = 0 /\ Top'.i = 0
          /\ (Turning /\ CurReadable /\ pc' = "run"
                 /\ Len(stack') = Len(stack)) =>
               /\ Top'.i = Top.i + 1
               /\ Top'.voff = Top.voff + CurLen
               /\ CurJe.hi >= 8 => Top'.voff = CurJe.lo
               /\ CurType = 0 =>
                    LastValue' = JString(_decode_utf8(
                        PySlice(data, CurPos, CurPos + CurLen)).s)
          /\ (Turning /\ CurReadable /\ pc' = "run"
                 /\ Len(stack') = Len(stack) + 1) =>
               /\ Top'.hdr - CurPos \in 0..3
               /\ stack'[Len(stack)].flen =
                    IF CurJe.hi >= 8 THEN CurJe.lo - Top.voff ELSE CurJe.lo
          /\ (pc = "run" /\ Len(stack) > 1 /\ Top.i >= Top.n
                 /\ pc' = "run") =>
               /\ Top'.voff = Parent.voff + Parent.flen
               /\ Parent.flen = ParentLen
               /\ ParentJe.hi >= 8 => Top'.voff = ParentJe.lo
       ]_vars

\* an object at its second value: the first value had the offset bit, and
\* voff, past the keys, is its raw field
C15_Witness ==
    /\ pc = "run"
    /\ Top.kind = "object"
    /\ Top.size = 2
    /\ Top.i = 3
    /\ _unpack_uint4(data, Top.pos + 8).hi >= 8
    /\ Top.voff = _unpack_uint4(data, Top.pos + 8).lo
    /\ Top.voff > 0

\* C16: a jentry of type null, true or false is accepted only with a
\* computed length of 0: with any other length the decode fails, instead of
\* giving null, true or false and moving the running offset by the length.
C16_ValuelessLength ==
    [][(Turning /\ CurReadable /\ CurType \in {2, 3, 4} /\ CurLen # 0)
          => pc' = "error"]_vars

\* the highest index in 1..N at which the key of index i is decoded
LastOf(r, N, i) ==
    CHOOSE j \in i..N : r[j] = r[i] /\ \A j2 \in (j + 1)..N : r[j2] # r[i]

\* C17: when key jentries of an object decode to the same string, the map
\* returned holds the key once, with the value paired with its last
\* occurrence; the keys that come once keep their own values.
C17_DuplicateKeys ==
    [][ObjectReturns =>
         LET N == _unpack_uint4(data, Top.hdr).lo
             r == Top.res
             m == LastValue'
         IN  /\ m.t = "obj"
             /\ DOMAIN m.v = {r[i] : i \in 1..N}
             /\ \A i \in 1..N : m.v[r[i]] = r[N + LastOf(r, N, i)]
             /\ Cardinality(DOMAIN m.v) =
                  Cardinality({i \in 1..N : LastOf(r, N, i) = i})
      ]_vars

\* the key "" twice, with null and then with true: {"": true} was returned
C17_Witness ==
    /\ pc = "done"
    /\ Len(data) >= 20
    /\ RootJc.hi = 2
    /\ RootJc.lo = 2
    /\ _unpack_uint4(data, 4).hi % 8 = 0
    /\ _unpack_uint4(data, 8).hi % 8 = 0
    /\ _unpack_uint4(data, 12).hi % 8 = 4
    /\ _unpack_uint4(data, 16).hi % 8 = 3
    /\ result = JObject([key \in {JString(<<>>)} |-> JBool(TRUE)])

\* C18: every length handed to _parse_entry is >= 0: a jentry with the
\* offset bit whose raw field is below the running offset fails the decode;
\* it is not decoded with a negative length, the offset moving backwards.
C18_NonNegativeLength ==
    [][(Turning /\ CurReadable /\ CurJe.hi >= 8 /\ CurJe.lo < Top.voff)
          => pc' = "error"]_vars

\* C19: on every buffer the running offset of every array and object being
\* decoded is never negative, so every child is decoded at or past the
\* start of the values of its container, and the header of a nested
\* container is read strictly past the header of its parent, hence of every
\* container around it.
C19_ForwardProgress ==
    /\ [](\A k \in 1..Len(stack) :
             /\ stack[k].voff >= 0
             /\ stack[k].vstart > stack[k].hdr
             /\ \A j \in 1..(k - 1) :
                    /\ stack[k].hdr > stack[j].hdr
                    /\ stack[k].hdr >= stack[j].vstart)
    /\ [][/\ (Turning /\ CurReadable) => CurPos >= Top.vstart
          /\ Descending => NestedHdrPos > Top.hdr
          /\ (Descending /\ Len(stack') = Len(stack) + 1) =>
               Top'.hdr = NestedHdrPos
       ]_vars

\* a jentry with an end offset below the running offset has been decoded:
\* voff went back from 1 to 0, and no further
C19_Witness ==
    /\ pc = "run"
    /\ Top.i = 2
    /\ SumLens(Top, 1) = 1
    /\ _unpack_uint4(data, Top.pos + 4).hi >= 8
    /\ Top.voff = 0

\* top nibbles of a header word with the array and the object bit
BothBits == {6, 7, 14, 15}

\* top nibbles of a header word with the object bit and no array bit
ObjectOnlyBits == {2, 3, 10, 11}

\* C20: a header, at the root or nested, with both the array and the object
\* bit is decoded as an array of `count' jentries, never as an object of
\* 2 * count; and with a root header that has the object bit and no array
\* bit the scalar bit changes nothing: the buffer with that bit flipped
\* comes to the same value or the same exception.
C20_FlagPrecedence ==
    /\ [](\A k \in 1..Len(stack) :
             LET f == stack[k]
                 h == _unpack_uint4(data, f.hdr)
             IN  /\ f.jc = h
                 /\ h.hi \in BothBits =>
                      /\ f.kind = "array"
                      /\ f.n = h.lo
                      /\ f.vstart = f.hdr + 4 + 4 * h.lo
                 /\ f.kind = "object" => h.hi \in ObjectOnlyBits)
    /\ [][/\ (Descending /\ NestedJc.hi \in BothBits) =>
               /\ pc' = "run"
               /\ IF NestedJc.lo = 0
                    THEN LastValue' = JArray(<<>>)
                    ELSE Top'.hdr = NestedHdrPos /\ Top'.kind = "array"
          /\ (pc = "start" /\ Len(data) >= 4 /\ RootJc.hi \in {6, 14}) =>
               IF RootJc.lo = 0
                 THEN pc' = "done" /\ result' = JArray(<<>>)
                 ELSE pc' = "run" /\ Top'.kind = "array"
          /\ (pc = "run" /\ pc' = "done" /\ RootJc.hi \in BothBits) =>
               /\ Len(Top.res) = RootJc.lo
               /\ result' = IF RootJc.hi % 2 = 1 THEN Top.res[1]
                             ELSE JArray(Top.res)
       ]_vars
    /\ []((call = 2 /\ pc \in {"done", "error"}
             /\ RootJc.hi \in ObjectOnlyBits) => Outcome = first)

\* a root header with the object and scalar bits and two pairs came to the
\* same map as without the scalar bit
C20_Witness ==
    /\ call = 2
    /\ pc = "done"
    /\ RootJc.hi = 3
    /\ RootJc.lo = 2
    /\ result.t = "obj"
    /\ Cardinality(DOMAIN result.v) = 2
    /\ first = Returned(result)

====
